---- MODULE Spec2Model ----
(***************************************************************************)
(* Model of server.js: the visitor counter store (trackVisitor,            *)
(* getVisitorStats over ./visitors.json) and the request router of         *)
(* http.createServer.  One Node process, one event loop: the request       *)
(* handler and each 'end' callback run to completion, several requests     *)
(* may be waiting for their body at the same time.                         *)
(***************************************************************************)
EXTENDS Integers, Sequences, FiniteSets, TLC

VARIABLES visitorsFile, disk, now, reqs, resp, resHeaders, crashed, last, pre, hist, fn

vars == <<visitorsFile, disk, now, reqs, resp, resHeaders, crashed, last, pre, hist, fn>>

(* ---- bounds ---- *)
MaxReqs == 3
MaxConn == 2

Slots == 1..MaxConn

(* ---- JSON values held by the record ---- *)
Num(n) == [t |-> "num", n |-> n, s |-> ""]
Str(x) == [t |-> "str", n |-> 0, s |-> x]
Date(n) == [t |-> "date", n |-> n, s |-> ""]
Null == [t |-> "null", n |-> 0, s |-> ""]
NaN == [t |-> "nan", n |-> 0, s |-> ""]
Undefined == [t |-> "undefined", n |-> 0, s |-> ""]
False == [t |-> "bool", n |-> 0, s |-> ""]

EmptyObj == [k \in {} |-> Null]

SetKey(o, k, v) == [x \in (DOMAIN o) \cup {k} |-> IF x = k THEN v ELSE o[x]]

(* the default record literal of trackVisitor / getVisitorStats *)
ZeroStats(t) ==
  [k \in {"total", "web", "api", "lastUpdated"} |->
     IF k = "lastUpdated" THEN Date(t) ELSE Num(0)]

(* x++ on a property value: ToNumber(x) + 1 *)
PostIncr(v) ==
  CASE v.t = "num" -> Num(v.n + 1)
    [] v.t = "null" -> Num(1)
    [] OTHER -> NaN

(* JSON.stringify followed by JSON.parse of an object: NaN is written as null *)
Stringify(o) == [k \in DOMAIN o |-> IF o[k].t = "nan" THEN Null ELSE o[k]]

(* the file: absent, text that is not JSON, the text null, or the text of a JSON object *)
Absent == [kind |-> "absent", obj |-> EmptyObj]
Garbage == [kind |-> "garbage", obj |-> EmptyObj]
NullFile == [kind |-> "null", obj |-> EmptyObj]
FileOf(o) == [kind |-> "object", obj |-> Stringify(o)]

(* lines 21-27: the mutation of the parsed record *)
MutateKeepsTotal(data, type, t) ==
  LET d2 == IF type \in DOMAIN data
              THEN SetKey(data, type, PostIncr(data[type]))
              ELSE SetKey(SetKey(data, "total",
                                 IF "total" \in DOMAIN data THEN PostIncr(data["total"]) ELSE NaN),
                          type, Num(1))
  IN SetKey(d2, "lastUpdated", Date(t))

MutateResetsCounter(data, type, t) ==
  LET d1 == SetKey(data, "total",
                   IF "total" \in DOMAIN data THEN PostIncr(data["total"]) ELSE NaN)
      d2 == SetKey(d1, type, Num(1))
  IN SetKey(d2, "lastUpdated", Date(t))

MutateDropsKeys(data, type, t) ==
  LET z == ZeroStats(t)
      d0 == [k \in DOMAIN z |-> IF k \in DOMAIN data THEN data[k] ELSE z[k]]
      d1 == SetKey(d0, "total", PostIncr(d0["total"]))
      d2 == IF type \in DOMAIN d1
              THEN SetKey(d1, type, PostIncr(d1[type]))
              ELSE SetKey(d1, type, Num(1))
  IN SetKey(d2, "lastUpdated", Date(t))

Mutate(data, type, t) ==
  LET d1 == SetKey(data, "total",
                   IF "total" \in DOMAIN data THEN PostIncr(data["total"]) ELSE NaN)
      d2 == IF type \in DOMAIN d1
              THEN SetKey(d1, type, PostIncr(d1[type]))
              ELSE SetKey(d1, type, Num(1))
  IN SetKey(d2, "lastUpdated", Date(t))

(* fs.existsSync / fs.readFileSync + JSON.parse / fs.writeFileSync *)
existsSync(f) == f.kind # "absent"
ReadThrowsOnlyNoAccess(f, d) == d = "noaccess"

ReadThrows(f, d) == d = "noaccess" \/ f.kind = "garbage"
WriteThrows(d) == d # "rw"

(* lines 13-36 *)
trackVisitorReturnsData(f, type, d, t) ==
  LET readFails == existsSync(f) /\ ReadThrows(f, d)
      nullData == existsSync(f) /\ ~readFails /\ f.kind = "null"
      data0 == IF f.kind = "object" /\ ~readFails THEN f.obj ELSE ZeroStats(t)
      data == Mutate(data0, type, t)
  IN IF readFails \/ nullData \/ WriteThrows(d)
       THEN [file |-> f, ret |-> data, ok |-> FALSE]
       ELSE [file |-> FileOf(data), ret |-> data, ok |-> TRUE]

trackVisitor(f, type, d, t) ==
  LET readFails == existsSync(f) /\ ReadThrows(f, d)
      nullData == existsSync(f) /\ ~readFails /\ f.kind = "null"
      data0 == IF f.kind = "object" /\ ~readFails THEN f.obj ELSE ZeroStats(t)
      data == Mutate(data0, type, t)
  IN IF readFails \/ nullData \/ WriteThrows(d)
       THEN [file |-> f, ret |-> ZeroStats(t), ok |-> FALSE]
       ELSE [file |-> FileOf(data), ret |-> data, ok |-> TRUE]

(* lines 38-49 *)
getVisitorStatsCreates(f, d, t) ==
  IF existsSync(f)
    THEN IF ReadThrows(f, d)
           THEN [file |-> f, ret |-> ZeroStats(t), ok |-> FALSE, isNull |-> FALSE]
           ELSE [file |-> f, ret |-> f.obj, ok |-> TRUE, isNull |-> f.kind = "null"]
    ELSE [file |-> IF WriteThrows(d) THEN f ELSE FileOf(ZeroStats(t)),
          ret |-> ZeroStats(t), ok |-> TRUE, isNull |-> FALSE]

getVisitorStats(f, d, t) ==
  IF existsSync(f)
    THEN IF ReadThrows(f, d)
           THEN [file |-> f, ret |-> ZeroStats(t), ok |-> FALSE, isNull |-> FALSE]
           ELSE [file |-> f, ret |-> f.obj, ok |-> TRUE, isNull |-> f.kind = "null"]
    ELSE [file |-> f, ret |-> ZeroStats(t), ok |-> TRUE, isNull |-> FALSE]

(* ---- texts: a string is the sequence of its code points ---- *)
MaxTextLen == 3

(* A % + e-acute, the euro sign, an emoji outside the basic plane *)
TextChars == {65, 37, 43, 233, 8364, 128512}

RECURSIVE SeqsUpTo(_, _)
SeqsUpTo(S, n) ==
  IF n = 0 THEN {<<>>}
  ELSE LET shorter == SeqsUpTo(S, n - 1)
       IN shorter \cup {Append(q, c) : q \in shorter, c \in S}

Texts == SeqsUpTo(TextChars, MaxTextLen)

RECURSIVE Flatten(_)
Flatten(ss) == IF ss = <<>> THEN <<>> ELSE Head(ss) \o Flatten(Tail(ss))

(* Buffer.from(text): the UTF-8 bytes of a string *)
Utf8Of(cp) ==
  IF cp < 128 THEN <<cp>>
  ELSE IF cp < 2048 THEN <<192 + (cp \div 64), 128 + (cp % 64)>>
  ELSE IF cp < 65536
    THEN <<224 + (cp \div 4096), 128 + ((cp \div 64) % 64), 128 + (cp % 64)>>
  ELSE <<240 + (cp \div 262144), 128 + ((cp \div 4096) % 64),
         128 + ((cp \div 64) % 64), 128 + (cp % 64)>>

Utf8Encode(text) == Flatten([i \in 1..Len(text) |-> Utf8Of(text[i])])

(* the first character of a byte sequence: its code point, the bytes used, and
   whether they were well-formed (U+FFFD stands in for those that were not) *)
Bad(n) == [cp |-> 65533, n |-> n, ok |-> FALSE]

In(b, i, lo, hi) == i <= Len(b) /\ b[i] >= lo /\ b[i] <= hi

Utf8Next(b) ==
  LET b1 == b[1]
  IN IF b1 < 128 THEN [cp |-> b1, n |-> 1, ok |-> TRUE]
     ELSE IF b1 >= 194 /\ b1 <= 223
       THEN IF In(b, 2, 128, 191)
              THEN [cp |-> (b1 - 192) * 64 + (b[2] - 128), n |-> 2, ok |-> TRUE]
              ELSE Bad(1)
     ELSE IF b1 >= 224 /\ b1 <= 239
       THEN IF ~In(b, 2, IF b1 = 224 THEN 160 ELSE 128, IF b1 = 237 THEN 159 ELSE 191)
              THEN Bad(1)
            ELSE IF ~In(b, 3, 128, 191) THEN Bad(2)
            ELSE [cp |-> (b1 - 224) * 4096 + (b[2] - 128) * 64 + (b[3] - 128),
                  n |-> 3, ok |-> TRUE]
     ELSE IF b1 >= 240 /\ b1 <= 244
       THEN IF ~In(b, 2, IF b1 = 240 THEN 144 ELSE 128, IF b1 = 244 THEN 143 ELSE 191)
              THEN Bad(1)
            ELSE IF ~In(b, 3, 128, 191) THEN Bad(2)
            ELSE IF ~In(b, 4, 128, 191) THEN Bad(3)
            ELSE [cp |-> (b1 - 240) * 262144 + (b[2] - 128) * 4096
                           + (b[3] - 128) * 64 + (b[4] - 128),
                  n |-> 4, ok |-> TRUE]
     ELSE Bad(1)

(* buffer.toString('utf8') *)
RECURSIVE Utf8Decode(_)
Utf8Decode(b) ==
  IF b = <<>> THEN <<>>
  ELSE LET d == Utf8Next(b)
       IN <<d.cp>> \o Utf8Decode(SubSeq(b, d.n + 1, Len(b)))

RECURSIVE Utf8WellFormed(_)
Utf8WellFormed(b) ==
  IF b = <<>> THEN TRUE
  ELSE LET d == Utf8Next(b)
       IN d.ok /\ Utf8WellFormed(SubSeq(b, d.n + 1, Len(b)))

(* the base64 alphabet: the character of a sextet, the sextet of a character
   (64 for any other character) *)
B64Char(v) ==
  IF v < 26 THEN 65 + v
  ELSE IF v < 52 THEN 97 + (v - 26)
  ELSE IF v < 62 THEN 48 + (v - 52)
  ELSE IF v = 62 THEN 43 ELSE 47

unbase64(c) ==
  IF c >= 65 /\ c <= 90 THEN c - 65
  ELSE IF c >= 97 /\ c <= 122 THEN c - 97 + 26
  ELSE IF c >= 48 /\ c <= 57 THEN c - 48 + 52
  ELSE IF c = 43 \/ c = 45 THEN 62
  ELSE IF c = 47 \/ c = 95 THEN 63
  ELSE 64

(* buffer.toString('base64') *)
RECURSIVE B64Encode(_)
B64Encode(b) ==
  IF b = <<>> THEN <<>>
  ELSE IF Len(b) = 1
    THEN <<B64Char(b[1] \div 4), B64Char((b[1] % 4) * 16), 61, 61>>
  ELSE IF Len(b) = 2
    THEN <<B64Char(b[1] \div 4), B64Char((b[1] % 4) * 16 + (b[2] \div 16)),
           B64Char((b[2] % 16) * 4), 61>>
  ELSE <<B64Char(b[1] \div 4), B64Char((b[1] % 4) * 16 + (b[2] \div 16)),
         B64Char((b[2] % 16) * 4 + (b[3] \div 64)), B64Char(b[3] % 64)>>
       \o B64Encode(SubSeq(b, 4, Len(b)))

(* Buffer.from(encoded, 'base64'): characters outside the alphabet are skipped,
   the first = ends the input, a lone trailing sextet is dropped; nothing throws *)
RECURSIVE Sextets(_)
Sextets(cs) ==
  IF cs = <<>> \/ Head(cs) = 61 THEN <<>>
  ELSE IF unbase64(Head(cs)) = 64 THEN Sextets(Tail(cs))
  ELSE <<unbase64(Head(cs))>> \o Sextets(Tail(cs))

RECURSIVE SextetsToBytes(_)
SextetsToBytes(x) ==
  IF Len(x) < 2 THEN <<>>
  ELSE IF Len(x) = 2 THEN <<x[1] * 4 + (x[2] \div 16)>>
  ELSE IF Len(x) = 3
    THEN <<x[1] * 4 + (x[2] \div 16), (x[2] % 16) * 16 + (x[3] \div 4)>>
  ELSE <<x[1] * 4 + (x[2] \div 16), (x[2] % 16) * 16 + (x[3] \div 4),
         (x[3] % 4) * 64 + x[4]>>
       \o SextetsToBytes(SubSeq(x, 5, Len(x)))

B64Decode(cs) == SextetsToBytes(Sextets(cs))

(* what a transform yields: its value, or the message of the error it throws *)
Value(v) == [threw |-> FALSE, out |-> v, msg |-> ""]
Throw(m) == [threw |-> TRUE, out |-> <<>>, msg |-> m]

(* lines 52-54 *)
base64Encode(text) == Value(B64Encode(Utf8Encode(text)))

(* lines 56-62: the catch is never entered for a string argument *)
base64Decode(encoded) == Value(Utf8Decode(B64Decode(encoded)))

(* encodeURIComponent: the characters left as they are *)
IsUnescapedOrPercent(c) ==
  \/ c >= 65 /\ c <= 90
  \/ c >= 97 /\ c <= 122
  \/ c >= 48 /\ c <= 57
  \/ c \in {45, 95, 46, 33, 126, 42, 39, 40, 41, 37}

IsUnescaped(c) ==
  \/ c >= 65 /\ c <= 90
  \/ c >= 97 /\ c <= 122
  \/ c >= 48 /\ c <= 57
  \/ c \in {45, 95, 46, 33, 126, 42, 39, 40, 41}

HexChar(v) == IF v < 10 THEN 48 + v ELSE 55 + v

HexVal(c) ==
  IF c >= 48 /\ c <= 57 THEN c - 48
  ELSE IF c >= 65 /\ c <= 70 THEN c - 55
  ELSE IF c >= 97 /\ c <= 102 THEN c - 87
  ELSE 16

PercentOf(byte) == <<37, HexChar(byte \div 16), HexChar(byte % 16)>>

EscapeChar(c) ==
  IF IsUnescaped(c) THEN <<c>>
  ELSE LET b == Utf8Of(c) IN Flatten([i \in 1..Len(b) |-> PercentOf(b[i])])

(* lines 186-188: encodeURIComponent(text) of a well-formed string *)
urlEncode(text) == Value(Flatten([i \in 1..Len(text) |-> EscapeChar(text[i])]))

(* decodeURIComponent: the escapes of a string, read left to right; each item is
   a literal character or the byte of a %XX escape; a % without two hex digits
   is an error *)
RECURSIVE Unescape(_)
Unescape(cs) ==
  IF cs = <<>> THEN [ok |-> TRUE, items |-> <<>>]
  ELSE IF Head(cs) # 37
    THEN LET r == Unescape(Tail(cs))
         IN [ok |-> r.ok, items |-> <<[lit |-> TRUE, v |-> Head(cs)]>> \o r.items]
  ELSE IF Len(cs) < 3 \/ HexVal(cs[2]) = 16 \/ HexVal(cs[3]) = 16
    THEN [ok |-> FALSE, items |-> <<>>]
  ELSE LET r == Unescape(SubSeq(cs, 4, Len(cs)))
       IN [ok |-> r.ok,
           items |-> <<[lit |-> FALSE, v |-> HexVal(cs[2]) * 16 + HexVal(cs[3])]>>
                     \o r.items]

(* the leading run of escaped bytes of a list of items *)
RECURSIVE ByteRun(_)
ByteRun(items) ==
  IF items = <<>> \/ Head(items).lit THEN <<>>
  ELSE <<Head(items).v>> \o ByteRun(Tail(items))

(* the escaped bytes must be well-formed UTF-8 *)
RECURSIVE DecodeItems(_)
DecodeItems(items) ==
  IF items = <<>> THEN [ok |-> TRUE, out |-> <<>>]
  ELSE IF Head(items).lit
    THEN LET r == DecodeItems(Tail(items))
         IN [ok |-> r.ok, out |-> <<Head(items).v>> \o r.out]
  ELSE LET run == ByteRun(items)
           r == DecodeItems(SubSeq(items, Len(run) + 1, Len(items)))
       IN [ok |-> Utf8WellFormed(run) /\ r.ok, out |-> Utf8Decode(run) \o r.out]

(* lines 190-192: decodeURIComponent(encoded) *)
urlDecode(encoded) ==
  LET u == Unescape(encoded)
      d == DecodeItems(u.items)
  IN IF u.ok /\ d.ok THEN Value(d.out) ELSE Throw("URI malformed")

(* ---- the text tools ---- *)
(* text.replace(/pat/g, rep) for a literal pattern: matches are taken left to
   right and do not overlap *)
RECURSIVE ReplaceAll(_, _, _)
ReplaceAll(text, pat, rep) ==
  IF text = <<>> THEN <<>>
  ELSE IF Len(text) >= Len(pat) /\ SubSeq(text, 1, Len(pat)) = pat
    THEN rep \o ReplaceAll(SubSeq(text, Len(pat) + 1, Len(text)), pat, rep)
  ELSE <<Head(text)>> \o ReplaceAll(Tail(text), pat, rep)

(* text.split(sep) for a one-character separator *)
RECURSIVE SplitOn(_, _)
SplitOn(cs, sep) ==
  IF cs = <<>> THEN <<<<>>>>
  ELSE LET rest == SplitOn(Tail(cs), sep)
       IN IF Head(cs) = sep THEN <<<<>>>> \o rest
          ELSE <<<<Head(cs)>> \o Head(rest)>> \o Tail(rest)

(* the entities of htmlEscape and htmlUnescape *)
Amp == <<38, 97, 109, 112, 59>>
Lt == <<38, 108, 116, 59>>
Gt == <<38, 103, 116, 59>>
Quot == <<38, 113, 117, 111, 116, 59>>
Apos == <<38, 35, 51, 57, 59>>

(* lines 275-282 *)
htmlEscape(text) ==
  Value(ReplaceAll(ReplaceAll(ReplaceAll(ReplaceAll(ReplaceAll(text,
          <<38>>, Amp), <<60>>, Lt), <<62>>, Gt), <<34>>, Quot), <<39>>, Apos))

(* lines 284-291 *)
htmlUnescape(text) ==
  Value(ReplaceAll(ReplaceAll(ReplaceAll(ReplaceAll(ReplaceAll(text,
          Amp, <<38>>), Lt, <<60>>), Gt, <<62>>), Quot, <<34>>), Apos, <<39>>))

(* line 258: lines1[i] || '' *)
LineOr(lines, i) == IF i <= Len(lines) THEN lines[i] ELSE <<>>

(* lines 262-267: the record pushed for index i of the loop *)
DifferenceZeroBased(i, line1, line2) ==
  [line |-> i, left |-> line1, right |-> line2,
   type |-> IF line1 # <<>> /\ line2 # <<>> THEN "modified"
            ELSE IF line1 # <<>> THEN "removed" ELSE "added"]

Difference(i, line1, line2) ==
  [line |-> i + 1, left |-> line1, right |-> line2,
   type |-> IF line1 # <<>> /\ line2 # <<>> THEN "modified"
            ELSE IF line1 # <<>> THEN "removed" ELSE "added"]

(* lines 257-269: the loop from index i on *)
RECURSIVE DiffFrom(_, _, _, _)
DiffFrom(i, maxLines, lines1, lines2) ==
  IF i >= maxLines THEN <<>>
  ELSE LET line1 == LineOr(lines1, i + 1)
           line2 == LineOr(lines2, i + 1)
           rest == DiffFrom(i + 1, maxLines, lines1, lines2)
       IN IF line1 # line2 THEN <<Difference(i, line1, line2)>> \o rest ELSE rest

(* lines 251-272 *)
findDifferences(text1, text2) ==
  LET lines1 == SplitOn(text1, 10)
      lines2 == SplitOn(text2, 10)
      maxLines == IF Len(lines1) > Len(lines2) THEN Len(lines1) ELSE Len(lines2)
  IN Value(DiffFrom(0, maxLines, lines1, lines2))

(* the characters String.prototype.trim removes, of those the inputs hold *)
WhiteSpace == {32, 9, 10, 13}

RECURSIVE TrimStart(_)
TrimStart(cs) ==
  IF cs # <<>> /\ Head(cs) \in WhiteSpace THEN TrimStart(Tail(cs)) ELSE cs

RECURSIVE TrimEnd(_)
TrimEnd(cs) ==
  IF cs # <<>> /\ cs[Len(cs)] \in WhiteSpace
    THEN TrimEnd(SubSeq(cs, 1, Len(cs) - 1)) ELSE cs

Trim(cs) == TrimEnd(TrimStart(cs))

IsNonBlank(line) == Trim(line) # <<>>

(* .split(',').map(v => v.trim().replace(/"/g, '')) *)
Cells(line) ==
  LET parts == SplitOn(line, 44)
  IN [i \in 1..Len(parts) |-> ReplaceAll(Trim(parts[i]), <<34>>, <<>>)]

(* line 161: values[index] || '' *)
FieldAtUnpadded(values, index) ==
  IF index <= Len(values) THEN values[index] ELSE <<117>>

FieldAt(values, index) ==
  IF index <= Len(values) THEN values[index] ELSE <<>>

(* lines 158-162: the object of a row; a header that occurs twice keeps the
   value of its last column *)
RowObject(headers, values) ==
  [h \in {headers[i] : i \in 1..Len(headers)} |->
     LET index == CHOOSE i \in 1..Len(headers) :
                    /\ headers[i] = h
                    /\ \A j \in 1..Len(headers) : headers[j] = h => j <= i
     IN FieldAt(values, index)]

(* lines 149-168 *)
csvToJson(csvString) ==
  LET lines == SelectSeq(SplitOn(csvString, 10), IsNonBlank)
  IN IF Len(lines) = 0 THEN Value(<<>>)
     ELSE LET headers == Cells(lines[1])
          IN Value([i \in 1..(Len(lines) - 1) |-> RowObject(headers, Cells(lines[i + 1]))])

IsDigit(c) == c >= 48 /\ c <= 57

(* lines 353-356: the value a digit adds to the sum *)
LuhnDigitUnfolded(digit, shouldDouble) == IF shouldDouble THEN digit * 2 ELSE digit

LuhnDigit(digit, shouldDouble) ==
  IF shouldDouble
    THEN IF digit * 2 > 9 THEN digit * 2 - 9 ELSE digit * 2
    ELSE digit

(* lines 350-360: the loop from index i down to the first character *)
RECURSIVE LuhnSum(_, _, _)
LuhnSum(cleaned, i, shouldDouble) ==
  IF i < 1 THEN 0
  ELSE LuhnDigit(cleaned[i] - 48, shouldDouble) + LuhnSum(cleaned, i - 1, ~shouldDouble)

StartsWith(cs, prefix) == Len(cs) >= Len(prefix) /\ SubSeq(cs, 1, Len(prefix)) = prefix

(* lines 369-381 *)
getCardType(number) ==
  IF StartsWith(number, <<52>>) THEN "visa"
  ELSE IF Len(number) >= 2 /\ number[1] = 53 /\ number[2] >= 49 /\ number[2] <= 53
    THEN "mastercard"
  ELSE IF Len(number) >= 2 /\ number[1] = 51 /\ number[2] \in {52, 55} THEN "amex"
  ELSE IF StartsWith(number, <<54, 48, 49, 49>>) \/ StartsWith(number, <<54, 53>>)
    THEN "discover"
  ELSE "unknown"

(* lines 383-390 *)
formatCardNumber(number) ==
  IF Len(number) = 16
    THEN SubSeq(number, 1, 4) \o <<32>> \o SubSeq(number, 5, 8) \o <<32>>
         \o SubSeq(number, 9, 12) \o <<32>> \o SubSeq(number, 13, 16)
  ELSE IF Len(number) = 15
    THEN SubSeq(number, 1, 4) \o <<32>> \o SubSeq(number, 5, 10) \o <<32>>
         \o SubSeq(number, 11, 15)
  ELSE number

(* lines 345-367 *)
creditCardValidator(number) ==
  LET cleaned == SelectSeq(number, IsDigit)
  IN Value([valid |-> LuhnSum(cleaned, Len(cleaned), FALSE) % 10 = 0,
            type |-> getCardType(cleaned),
            formatted |-> formatCardNumber(cleaned)])

(* ---- request paths: the pathname as a sequence of "/" and segment tokens ---- *)
P_root == <<"/">>
P_api == <<"/", "api", "/">>
P_health == <<"/", "api", "/", "health", "/">>
P_stats == <<"/", "api", "/", "visitors", "/", "stats">>
P_track == <<"/", "api", "/", "visitors", "/", "track">>
P_uuid == <<"/", "api", "/", "generate", "/", "uuid">>
P_nope == <<"/", "api", "/", "tools", "/", "does-not-exist">>

Paths == {P_root, P_api, P_health, P_stats, P_track, P_uuid, P_nope}
Methods == {"GET", "POST", "OPTIONS", "PUT"}

RECURSIVE DropLeading(_)
DropLeading(p) == IF p # <<>> /\ Head(p) = "/" THEN DropLeading(Tail(p)) ELSE p

RECURSIVE DropTrailing(_)
DropTrailing(p) ==
  IF p # <<>> /\ p[Len(p)] = "/" THEN DropTrailing(SubSeq(p, 1, Len(p) - 1)) ELSE p

(* line 1111: path.replace(/^\/+|\/+$/g, '') *)
trimmedPath(p) == DropTrailing(DropLeading(p))

T_health == <<"api", "/", "health">>
T_stats == <<"api", "/", "visitors", "/", "stats">>
T_track == <<"api", "/", "visitors", "/", "track">>
T_uuid == <<"api", "/", "generate", "/", "uuid">>
T_base64encode == <<"api", "/", "base64", "/", "encode">>
T_base64decode == <<"api", "/", "base64", "/", "decode">>
T_jsontoxml == <<"api", "/", "convert", "/", "json-to-xml">>
T_urldecode == <<"api", "/", "convert", "/", "url-decode">>
T_hash == <<"api", "/", "generate", "/", "hash">>
T_jwt == <<"api", "/", "decode", "/", "jwt">>
T_timestamp == <<"api", "/", "convert", "/", "timestamp">>
T_nope == <<"api", "/", "tools", "/", "does-not-exist">>

(* the tool paths a client posts to *)
ToolPaths ==
  {<<"/">> \o tp : tp \in {T_base64encode, T_base64decode, T_jsontoxml, T_urldecode,
                           T_timestamp, T_hash, T_uuid, T_jwt, T_nope}}

(* trimmedPath.startsWith('api/') *)
StartsWithApiLoose(tp) == Len(tp) >= 1 /\ tp[1] = "api"

StartsWithApi(tp) == Len(tp) >= 2 /\ tp[1] = "api" /\ tp[2] = "/"

(* ---- request bodies and JSON.parse ---- *)
Bodies == {"", "{}", "{\"type\":\"api\"}", "{\"type\":\"mobile\"}",
           "{\"type\":\"total\"}", "{bad", "null"}

(* the bodies posted to the tools *)
ToolBodies ==
  {"{}", "null", "{bad",
   "{\"text\":\"A%\"}",
   "{\"encoded\":\"QSU=\"}", "{\"encoded\":\"!!!\"}",
   "{\"encoded\":\"%\"}", "{\"encoded\":\"%41\"}",
   "{\"json\":\"{}\"}", "{\"json\":\"{bad\"}",
   "{\"token\":\"a.b\"}", "{\"token\":\"a.b.c\"}", "{\"token\":\"e30.e30.x\"}",
   "{\"text\":\"\"}", "{\"text\":0}", "{\"text\":false}", "{\"text\":null}",
   "{\"timestamp\":0}", "{\"timestamp\":1641600000}",
   "{\"timestamp\":8640000000000}", "{\"timestamp\":8640000086400}",
   "{\"text\":\"A%\",\"algorithm\":\"sha256\"}",
   "{\"text\":\"A%\",\"algorithm\":\"nope\"}"}

NoFields == [k \in {} |-> Null]

(* a parsed object: its fields, and its type field if it has one *)
Parsed(type, obj) == [throws |-> FALSE, isNull |-> FALSE, type |-> type, obj |-> obj]

(* JSON.parse(buffer): throws, or the parsed value (null, or an object and its fields) *)
(* a count of seconds that is a whole number of days, written as that number of
   days: the counts the bodies carry do not fit 32-bit integers *)
Seconds(days) == Num(days)

JSONparse(b) ==
  CASE b = "{}" -> Parsed("", NoFields)
    [] b = "{\"type\":\"api\"}" -> Parsed("api", "type" :> Str("api"))
    [] b = "{\"type\":\"mobile\"}" -> Parsed("mobile", "type" :> Str("mobile"))
    [] b = "{\"type\":\"total\"}" -> Parsed("total", "type" :> Str("total"))
    [] b = "{\"text\":\"A%\"}" -> Parsed("", "text" :> Str("A%"))
    [] b = "{\"encoded\":\"QSU=\"}" -> Parsed("", "encoded" :> Str("QSU="))
    [] b = "{\"encoded\":\"!!!\"}" -> Parsed("", "encoded" :> Str("!!!"))
    [] b = "{\"encoded\":\"%\"}" -> Parsed("", "encoded" :> Str("%"))
    [] b = "{\"encoded\":\"%41\"}" -> Parsed("", "encoded" :> Str("%41"))
    [] b = "{\"json\":\"{}\"}" -> Parsed("", "json" :> Str("{}"))
    [] b = "{\"json\":\"{bad\"}" -> Parsed("", "json" :> Str("{bad"))
    [] b = "{\"token\":\"a.b\"}" -> Parsed("", "token" :> Str("a.b"))
    [] b = "{\"token\":\"e30.e30.x\"}" -> Parsed("", "token" :> Str("e30.e30.x"))
    [] b = "{\"text\":\"A%\",\"algorithm\":\"sha256\"}"
         -> Parsed("", ("text" :> Str("A%")) @@ ("algorithm" :> Str("sha256")))
    [] b = "{\"text\":\"A%\",\"algorithm\":\"nope\"}"
         -> Parsed("", ("text" :> Str("A%")) @@ ("algorithm" :> Str("nope")))
    [] b = "{\"token\":\"a.b.c\"}" -> Parsed("", "token" :> Str("a.b.c"))
    [] b = "{\"text\":\"\"}" -> Parsed("", "text" :> Str(""))
    [] b = "{\"text\":0}" -> Parsed("", "text" :> Num(0))
    [] b = "{\"text\":false}" -> Parsed("", "text" :> False)
    [] b = "{\"text\":null}" -> Parsed("", "text" :> Null)
    [] b = "{\"timestamp\":0}" -> Parsed("", "timestamp" :> Seconds(0))
    [] b = "{\"timestamp\":1641600000}" -> Parsed("", "timestamp" :> Seconds(19000))
    [] b = "{\"timestamp\":8640000000000}" -> Parsed("", "timestamp" :> Seconds(100000000))
    [] b = "{\"timestamp\":8640000086400}" -> Parsed("", "timestamp" :> Seconds(100000001))
    [] b = "null" -> [throws |-> FALSE, isNull |-> TRUE, type |-> "", obj |-> NoFields]
    [] OTHER -> [throws |-> TRUE, isNull |-> FALSE, type |-> "", obj |-> NoFields]

(* buffer ? JSON.parse(buffer) : {} *)
ParsePayload(b) == IF b = "" THEN Parsed("", NoFields) ELSE JSONparse(b)

(* the characters of the strings the bodies carry *)
CharsOf(str) ==
  CASE str = "" -> <<>>
    [] str = "A%" -> <<65, 37>>
    [] str = "QSU=" -> <<81, 83, 85, 61>>
    [] str = "!!!" -> <<33, 33, 33>>
    [] str = "%" -> <<37>>
    [] str = "%41" -> <<37, 52, 49>>
    [] str = "a.b" -> <<97, 46, 98>>
    [] str = "a.b.c" -> <<97, 46, 98, 46, 99>>
    [] str = "e30.e30.x" -> <<101, 51, 48, 46, 101, 51, 48, 46, 120>>

(* the strings a JWT part decodes to *)
StringOf(cs) ==
  CASE cs = <<>> -> ""
    [] cs = <<123, 125>> -> "{}"

(* ---- responses ---- *)
NoResp ==
  [status |-> 0, ctype |-> "", kind |-> "none", tag |-> "", error |-> "",
   stats |-> EmptyObj, visitors |-> Null]

JsonError(code, msg) ==
  [status |-> code, ctype |-> "application/json", kind |-> "error", tag |-> "",
   error |-> msg,
   stats |-> EmptyObj, visitors |-> Null]

NoCall == "none"
Outcome(r) == IF r.ok THEN "ok" ELSE "fail"

(* lines 1130-1141: the health check endpoint *)
HealthCheckStaleCount(f, d, t) ==
  LET tva == trackVisitor(f, "api", d, t)
      gs == getVisitorStats(f, d, t)
  IN IF gs.isNull
       THEN [file |-> tva.file, pc |-> "crashed", tv |-> Outcome(tva), tvType |-> "api",
             gs |-> Outcome(gs), resp |-> NoResp]
     ELSE
     [file |-> tva.file, pc |-> "idle", tv |-> Outcome(tva), tvType |-> "api",
      gs |-> Outcome(gs),
      resp |-> [status |-> 200, ctype |-> "application/json", kind |-> "health",
                tag |-> "OK", error |-> "", stats |-> EmptyObj,
                visitors |-> IF "total" \in DOMAIN gs.ret
                               THEN gs.ret["total"] ELSE Undefined]]

HealthCheck(f, d, t) ==
  LET tva == trackVisitor(f, "api", d, t)
      gs == getVisitorStats(tva.file, d, t)
  IN IF gs.isNull
       THEN [file |-> gs.file, pc |-> "crashed", tv |-> Outcome(tva), tvType |-> "api",
             gs |-> Outcome(gs), resp |-> NoResp]
     ELSE
     [file |-> gs.file, pc |-> "idle", tv |-> Outcome(tva), tvType |-> "api",
      gs |-> Outcome(gs),
      resp |-> [status |-> 200, ctype |-> "application/json", kind |-> "health",
                tag |-> "OK", error |-> "", stats |-> EmptyObj,
                visitors |-> IF "total" \in DOMAIN gs.ret
                               THEN gs.ret["total"] ELSE Undefined]]

(* lines 1176-1190: a POST under api/ is counted, then waits for its body *)
ApiArriveUntracked(f, d, t) ==
  [file |-> f, pc |-> "api", tv |-> NoCall, tvType |-> "", gs |-> NoCall, resp |-> NoResp]

ApiArriveTwice(f, d, t) ==
  LET tva == trackVisitor(f, "api", d, t)
      tvb == trackVisitor(tva.file, "api", d, t)
  IN [file |-> tvb.file, pc |-> "api", tv |-> Outcome(tvb), tvType |-> "api",
      gs |-> NoCall, resp |-> NoResp]

ApiArrive(f, d, t) ==
  LET tva == trackVisitor(f, "api", d, t)
  IN [file |-> tva.file, pc |-> "api", tv |-> Outcome(tva), tvType |-> "api",
      gs |-> NoCall, resp |-> NoResp]

(* line 1124: req.method === 'OPTIONS' *)
IsPreflightOutsideApi(m, tp) == m = "OPTIONS" /\ ~StartsWithApi(tp)

IsPreflight(m, tp) == m = "OPTIONS"

(* lines 1118-1121: the headers set on every res before routing *)
CorsHeaders ==
  {<<"Access-Control-Allow-Origin", "*">>,
   <<"Access-Control-Allow-Methods", "GET, POST, OPTIONS">>,
   <<"Access-Control-Allow-Headers", "Content-Type">>}

(* res.writeHead(status, headers): the headers sent are those set on res merged
   with those given *)
writeHeadReplaces(r, set) ==
  IF r.ctype = "" THEN {} ELSE {<<"Content-Type", r.ctype>>}

writeHead(r, set) ==
  IF r.status = 0 THEN {}
  ELSE set \cup (IF r.ctype = "" THEN {} ELSE {<<"Content-Type", r.ctype>>})

(* lines 1108-1190 and 1340-1349: the synchronous part of the request handler *)
Handler(m, p, f, d, t) ==
  LET tp == trimmedPath(p)
      web == (m = "GET" /\ ~StartsWithApi(tp))
      tvw == trackVisitor(f, "web", d, t)
      f1 == IF web THEN tvw.file ELSE f
      tv1 == IF web THEN Outcome(tvw) ELSE NoCall
      ty1 == IF web THEN "web" ELSE ""
      gs0 == getVisitorStats(f1, d, t)
  IN IF IsPreflight(m, tp)
       THEN [file |-> f1, pc |-> "idle", tv |-> tv1, tvType |-> ty1, gs |-> NoCall,
             resp |-> [NoResp EXCEPT !.status = 200, !.kind = "empty"]]
     ELSE IF tp = T_health
       THEN HealthCheck(f1, d, t)
     ELSE IF tp = T_stats /\ m = "GET"
       THEN [file |-> gs0.file, pc |-> "idle", tv |-> tv1, tvType |-> ty1,
             gs |-> Outcome(gs0),
             resp |-> [status |-> 200, ctype |-> "application/json", kind |-> "stats",
                       tag |-> IF gs0.isNull THEN "null" ELSE "", error |-> "",
                       stats |-> Stringify(gs0.ret), visitors |-> Null]]
     ELSE IF tp = T_track /\ m = "POST"
       THEN [file |-> f1, pc |-> "track", tv |-> tv1, tvType |-> ty1, gs |-> NoCall,
             resp |-> NoResp]
     ELSE IF m = "POST" /\ StartsWithApi(tp)
       THEN ApiArrive(f1, d, t)
     ELSE IF m = "GET"
       THEN [file |-> f1, pc |-> "idle", tv |-> tv1, tvType |-> ty1, gs |-> NoCall,
             resp |-> [NoResp EXCEPT !.status = 200, !.ctype = "text/html",
                                     !.kind = "html"]]
     ELSE [file |-> f1, pc |-> "idle", tv |-> tv1, tvType |-> ty1, gs |-> NoCall,
           resp |-> JsonError(404, "Not found")]

(* lines 1159-1172: the 'end' callback of api/visitors/track *)
TrackEndTracksFirst(b, f, d, t) ==
  LET payload == ParsePayload(b)
      type == IF payload.type # "" THEN payload.type ELSE "web"
      tv == trackVisitor(f, type, d, t)
  IN IF payload.throws \/ payload.isNull
       THEN [file |-> tv.file, tv |-> Outcome(tv), tvType |-> type, ran |-> "",
             resp |-> JsonError(400, "Invalid JSON")]
       ELSE [file |-> tv.file, tv |-> Outcome(tv), tvType |-> type, ran |-> "",
             resp |-> [status |-> 200, ctype |-> "application/json", kind |-> "track",
                       tag |-> "success", error |-> "", stats |-> Stringify(tv.ret),
                       visitors |-> Null]]

TrackEnd(b, f, d, t) ==
  LET payload == ParsePayload(b)
      type == IF payload.type # "" THEN payload.type ELSE "web"
      tv == trackVisitor(f, type, d, t)
  IN IF payload.throws \/ payload.isNull
       THEN [file |-> f, tv |-> NoCall, tvType |-> "", ran |-> "",
             resp |-> JsonError(400, "Invalid JSON")]
       ELSE [file |-> tv.file, tv |-> Outcome(tv), tvType |-> type, ran |-> "",
             resp |-> [status |-> 200, ctype |-> "application/json", kind |-> "track",
                       tag |-> "success", error |-> "", stats |-> Stringify(tv.ret), visitors |-> Null]]

(* what a case of the switch yields: a result, or a thrown error's message *)
Result(tool) ==
  [ran |-> tool,
   resp |-> [status |-> 200, ctype |-> "application/json", kind |-> "result", tag |-> tool,
             error |-> "", stats |-> EmptyObj, visitors |-> Null]]

Thrown(tool, msg) == [ran |-> tool, resp |-> JsonError(400, msg)]

(* lines 1322-1323: the default case of the switch *)
SwitchDefault404 == [ran |-> "", resp |-> JsonError(404, "Not found")]

SwitchDefault == Thrown("", "Endpoint not found")

(* lines 104-113 *)
jsonToXml(jsonString) ==
  IF JSONparse(jsonString).throws
    THEN Throw("Invalid JSON for XML conversion")
    ELSE Value(<<>>)

(* token.split('.') *)
RECURSIVE Split(_)
Split(cs) ==
  IF cs = <<>> THEN <<<<>>>>
  ELSE LET rest == Split(Tail(cs))
       IN IF Head(cs) = 46 THEN <<<<>>>> \o rest
          ELSE <<<<Head(cs)>> \o Head(rest)>> \o Tail(rest)

(* JSON.parse(Buffer.from(part, 'base64').toString()) *)
PartParses(part) == ~JSONparse(StringOf(Utf8Decode(B64Decode(part)))).throws

(* lines 194-206: every failure inside leaves as 'Invalid JWT token' *)
jwtDecode(token) ==
  LET parts == Split(token)
  IN IF Len(parts) # 3 \/ ~PartParses(parts[1]) \/ ~PartParses(parts[2])
       THEN Throw("Invalid JWT token")
       ELSE Value(<<>>)

(* the days either side of the epoch a Date can hold *)
MaxDays == 100000000

(* the calendar date of a day of the epoch, in the proleptic Gregorian calendar *)
CivilFromDays(days) ==
  LET z == days + 719468
      era == z \div 146097
      doe == z - era * 146097
      yoe == (doe - (doe \div 1460) + (doe \div 36524) - (doe \div 146096)) \div 365
      doy == doe - (365 * yoe + (yoe \div 4) - (yoe \div 100))
      mp == (5 * doy + 2) \div 153
      d == doy - ((153 * mp + 2) \div 5) + 1
      m == IF mp < 10 THEN mp + 3 ELSE mp - 9
  IN [year |-> yoe + era * 400 + (IF m <= 2 THEN 1 ELSE 0), month |-> m, day |-> d]

(* lines 208-215: new Date(timestamp * 1000) is an invalid Date outside the range,
   and toISOString of an invalid Date throws a RangeError *)
unixTimestampConverter(timestamp) ==
  IF timestamp.n > MaxDays \/ timestamp.n < -MaxDays
    THEN Throw("Invalid time value")
    ELSE Value(CivilFromDays(timestamp.n))

(* the digests crypto.createHash knows, of those the bodies name *)
Digests == {"md5", "sha1", "sha256", "sha512"}

(* lines 243-245: crypto.createHash throws on an unknown algorithm *)
calculateHash(text, algorithm) ==
  IF algorithm \in Digests THEN Value(<<>>) ELSE Throw("Digest method not supported")

(* the values JavaScript takes for true in a condition *)
IsTruthy(v) ==
  CASE v.t = "str" -> v.s # ""
    [] v.t = "num" -> v.n # 0
    [] v.t = "bool" -> v.n = 1
    [] v.t = "date" -> TRUE
    [] OTHER -> FALSE

(* !payload.field is false *)
TruthyIfPresent(payload, k) == k \in DOMAIN payload.obj

Truthy(payload, k) == k \in DOMAIN payload.obj /\ IsTruthy(payload.obj[k])

(* reading a property of null throws a TypeError inside the inner try *)
NullPayload == Thrown("", "Cannot read properties of null")

(* throw new Error('... required') before the transform is called *)
RequiredGeneric(msg) == Thrown("", "Missing required field")

Required(msg) == Thrown("", msg)

(* result = { ...: transform(...) }: the transform's value, or its error *)
Run(tool, r) == IF r.threw THEN Thrown(tool, r.msg) ELSE Result(tool)

(* lines 1195-1198 *)
CaseBase64Encode(payload) ==
  IF payload.isNull THEN NullPayload
  ELSE IF ~Truthy(payload, "text") THEN Required("Text is required")
  ELSE Run("base64Encode", base64Encode(CharsOf(payload.obj["text"].s)))

(* lines 1199-1202 *)
CaseBase64Decode(payload) ==
  IF payload.isNull THEN NullPayload
  ELSE IF ~Truthy(payload, "encoded") THEN Required("Encoded string is required")
  ELSE Run("base64Decode", base64Decode(CharsOf(payload.obj["encoded"].s)))

(* lines 1207-1210 *)
CaseJsonToXml(payload) ==
  IF payload.isNull THEN NullPayload
  ELSE IF ~Truthy(payload, "json") THEN Required("JSON is required")
  ELSE Run("jsonToXml", jsonToXml(payload.obj["json"].s))

(* lines 1223-1226 *)
CaseUrlDecode(payload) ==
  IF payload.isNull THEN NullPayload
  ELSE IF ~Truthy(payload, "encoded") THEN Required("Encoded string is required")
  ELSE Run("urlDecode", urlDecode(CharsOf(payload.obj["encoded"].s)))

(* lines 1227-1230 *)
CaseTimestamp(payload) ==
  IF payload.isNull THEN NullPayload
  ELSE IF ~Truthy(payload, "timestamp") THEN Required("Timestamp is required")
  ELSE Run("unixTimestampConverter", unixTimestampConverter(payload.obj["timestamp"]))

(* lines 1258-1261 *)
CaseHash(payload) ==
  IF payload.isNull THEN NullPayload
  ELSE IF ~Truthy(payload, "text") \/ ~Truthy(payload, "algorithm")
    THEN Required("Text and algorithm are required")
  ELSE Run("calculateHash", calculateHash(payload.obj["text"].s, payload.obj["algorithm"].s))

(* lines 1269-1272 *)
CaseJwt(payload) ==
  IF payload.isNull THEN NullPayload
  ELSE IF ~Truthy(payload, "token") THEN Required("JWT token is required")
  ELSE Run("jwtDecode", jwtDecode(CharsOf(payload.obj["token"].s)))

(* lines 1193-1331: the dispatch switch *)
Dispatch(tp, payload) ==
  IF tp = T_base64encode THEN CaseBase64Encode(payload)
  ELSE IF tp = T_base64decode THEN CaseBase64Decode(payload)
  ELSE IF tp = T_jsontoxml THEN CaseJsonToXml(payload)
  ELSE IF tp = T_urldecode THEN CaseUrlDecode(payload)
  ELSE IF tp = T_timestamp THEN CaseTimestamp(payload)
  ELSE IF tp = T_hash THEN CaseHash(payload)
  ELSE IF tp = T_uuid THEN Result("generateUUID")
  ELSE IF tp = T_jwt THEN CaseJwt(payload)
  ELSE SwitchDefault

(* lines 1186-1337: the 'end' callback of the generic API dispatch *)
ApiEndLooksUpFirst(tp, b, f) ==
  LET payload == ParsePayload(b)
      d == Dispatch(tp, payload)
  IN IF payload.throws /\ d # SwitchDefault
       THEN [file |-> f, tv |-> NoCall, tvType |-> "", ran |-> "",
             resp |-> JsonError(400, "Invalid JSON payload")]
       ELSE [file |-> f, tv |-> NoCall, tvType |-> "", ran |-> d.ran, resp |-> d.resp]

ApiEnd(tp, b, f) ==
  LET payload == ParsePayload(b)
      d == Dispatch(tp, payload)
  IN IF payload.throws
       THEN [file |-> f, tv |-> NoCall, tvType |-> "", ran |-> "",
             resp |-> JsonError(400, "Invalid JSON payload")]
       ELSE [file |-> f, tv |-> NoCall, tvType |-> "", ran |-> d.ran, resp |-> d.resp]

(* ---- the state machine ---- *)
Idle == [pc |-> "idle", path |-> <<>>, hdrs |-> {}]

(* the pure-function harness is at rest while the server runs *)
FnNone == [op |-> "none", input |-> <<>>, out |-> <<>>, threw |-> FALSE]

(* a record as an earlier run of the server, or an operator's edit, may have left it *)
OldStats ==
  [k \in {"total", "web", "api", "lastUpdated", "mobile", "note"} |->
     CASE k = "total" -> Num(3)
       [] k = "web" -> Num(1)
       [] k = "api" -> Num(1)
       [] k = "mobile" -> Num(1)
       [] k = "note" -> Str("keep")
       [] OTHER -> Date(0)]

InitFiles == {Absent, Garbage, NullFile, FileOf(OldStats)}

(* what the process may do with ./visitors.json: read and write, read only, nothing *)
Disks == {"rw", "ro", "noaccess"}

Init ==
  /\ visitorsFile \in InitFiles
  /\ disk \in Disks
  /\ now = 1
  /\ reqs = [s \in Slots |-> Idle]
  /\ resp = NoResp
  /\ resHeaders = {}
  /\ crashed = FALSE
  /\ fn = FnNone
  /\ pre = visitorsFile
  /\ last = [step |-> "init", slot |-> 0, method |-> "", path |-> <<>>, body |-> "",
             tv |-> NoCall, tvType |-> "", gs |-> NoCall, alone |-> TRUE, ran |-> ""]
  /\ hist = [fromAbsent |-> (visitorsFile = Absent), n |-> 0, calls |-> 0,
             plain |-> TRUE, plainTracks |-> 0, overlap |-> FALSE]

Count(o) == IF o = "ok" THEN 1 ELSE 0

(* a request's headers arrive: the handler of http.createServer runs *)
Arrive(s, m, p) ==
  /\ ~crashed
  /\ reqs[s].pc = "idle"
  /\ \A o \in Slots : o < s => reqs[o].pc # "idle"
  /\ hist.n < MaxReqs
  /\ LET h == Handler(m, p, visitorsFile, disk, now)
         tp == trimmedPath(p)
         others == \A o \in Slots \ {s} : reqs[o].pc = "idle"
     IN /\ visitorsFile' = h.file
        /\ reqs' = [reqs EXCEPT ![s] = IF h.pc \in {"idle", "crashed"} THEN Idle
                                       ELSE [pc |-> h.pc, path |-> tp,
                                             hdrs |-> CorsHeaders]]
        /\ resp' = h.resp
        /\ resHeaders' = writeHead(h.resp, CorsHeaders)
        /\ crashed' = (h.pc = "crashed")
        /\ last' = [step |-> "arrive", slot |-> s, method |-> m, path |-> tp, body |-> "",
                    tv |-> h.tv, tvType |-> h.tvType, gs |-> h.gs, alone |-> others,
                    ran |-> ""]
        /\ hist' = [hist EXCEPT !.n = @ + 1,
                                !.calls = @ + Count(h.tv),
                                !.plain = @ /\ ((m = "POST" /\ tp = T_track)
                                                \/ (m = "GET" /\ tp = T_stats)),
                                !.overlap = @ \/ (h.pc = "track"
                                                  /\ \E o \in Slots \ {s} :
                                                        reqs[o].pc = "track")]
  /\ pre' = visitorsFile
  /\ now' = now + 1
  /\ UNCHANGED <<disk, fn>>

(* the body of a waiting request has been received: its 'end' callback runs *)
End(s, b) ==
  /\ ~crashed
  /\ reqs[s].pc \in {"track", "api"}
  /\ LET e == IF reqs[s].pc = "track"
                THEN TrackEnd(b, visitorsFile, disk, now)
                ELSE ApiEnd(reqs[s].path, b, visitorsFile)
         isPlain == reqs[s].pc = "track" /\ b \in {"", "{}"}
     IN /\ visitorsFile' = e.file
        /\ resp' = e.resp
        /\ resHeaders' = writeHead(e.resp, reqs[s].hdrs)
        /\ last' = [step |-> "end", slot |-> s, method |-> "POST", path |-> reqs[s].path,
                    body |-> b, tv |-> e.tv, tvType |-> e.tvType, gs |-> NoCall,
                    alone |-> \A o \in Slots \ {s} : reqs[o].pc = "idle",
                    ran |-> e.ran]
        /\ hist' = [hist EXCEPT !.calls = @ + Count(e.tv),
                                !.plain = @ /\ isPlain,
                                !.plainTracks = @ + (IF isPlain THEN 1 ELSE 0)]
  /\ reqs' = [reqs EXCEPT ![s] = Idle]
  /\ pre' = visitorsFile
  /\ now' = now + 1
  /\ UNCHANGED <<disk, crashed, fn>>

Next ==
  \/ \E s \in Slots, m \in Methods, p \in Paths : Arrive(s, m, p)
  \/ \E s \in Slots, b \in Bodies : End(s, b)

Spec == Init /\ [][Next]_vars

(* ---- the tools behind the generic dispatch: clients post bodies to tool paths ---- *)
ToolInit == Init /\ visitorsFile = Absent /\ disk \in {"rw", "ro"}

ToolNext ==
  \/ \E s \in Slots, p \in ToolPaths : Arrive(s, "POST", p)
  \/ \E s \in Slots, b \in ToolBodies : End(s, b)

ToolSpec == ToolInit /\ [][ToolNext]_vars

(* ---- the transform library on its own: a text is given, a function applied ---- *)
CodecInit ==
  /\ visitorsFile = Absent
  /\ disk = "rw"
  /\ now = 1
  /\ reqs = [s \in Slots |-> Idle]
  /\ resp = NoResp
  /\ resHeaders = {}
  /\ crashed = FALSE
  /\ pre = visitorsFile
  /\ last = [step |-> "init", slot |-> 0, method |-> "", path |-> <<>>, body |-> "",
             tv |-> NoCall, tvType |-> "", gs |-> NoCall, alone |-> TRUE, ran |-> ""]
  /\ hist = [fromAbsent |-> TRUE, n |-> 0, calls |-> 0,
             plain |-> TRUE, plainTracks |-> 0, overlap |-> FALSE]
  /\ \E text \in Texts : fn = [FnNone EXCEPT !.input = text]

Apply(op, r) ==
  /\ fn.op = "none"
  /\ fn' = [op |-> op, input |-> fn.input, out |-> r.out, threw |-> r.threw]
  /\ UNCHANGED <<visitorsFile, disk, now, reqs, resp, resHeaders, crashed, last, pre, hist>>

(* base64Decode(base64Encode(text)) *)
Base64RoundTrip == Apply("base64", base64Decode(base64Encode(fn.input).out))

(* urlDecode(urlEncode(text)) *)
UrlRoundTrip == Apply("url", urlDecode(urlEncode(fn.input).out))

CodecNext == Base64RoundTrip \/ UrlRoundTrip

CodecSpec == CodecInit /\ [][CodecNext]_vars

(* ---- the text tools on their own ---- *)
(* the server at rest, and the argument a function is about to be given *)
FnInit(inputs) ==
  /\ visitorsFile = Absent
  /\ disk = "rw"
  /\ now = 1
  /\ reqs = [s \in Slots |-> Idle]
  /\ resp = NoResp
  /\ resHeaders = {}
  /\ crashed = FALSE
  /\ pre = visitorsFile
  /\ last = [step |-> "init", slot |-> 0, method |-> "", path |-> <<>>, body |-> "",
             tv |-> NoCall, tvType |-> "", gs |-> NoCall, alone |-> TRUE, ran |-> ""]
  /\ hist = [fromAbsent |-> TRUE, n |-> 0, calls |-> 0,
             plain |-> TRUE, plainTracks |-> 0, overlap |-> FALSE]
  /\ \E x \in inputs : fn = [FnNone EXCEPT !.input = x]

MaxHtmlLen == 4

(* & < l t ; *)
HtmlChars == {38, 60, 108, 116, 59}

(* htmlEscape(text) *)
HtmlEscape == Apply("escape", htmlEscape(fn.input))

(* htmlUnescape(htmlEscape(text)) *)
HtmlRoundTrip == Apply("html", htmlUnescape(htmlEscape(fn.input).out))

HtmlNext == HtmlEscape \/ HtmlRoundTrip

HtmlSpec == FnInit(SeqsUpTo(HtmlChars, MaxHtmlLen)) /\ [][HtmlNext]_vars

MaxDiffLen == 3

(* a b c and the line feed *)
DiffChars == {97, 98, 99, 10}

DiffTexts == SeqsUpTo(DiffChars, MaxDiffLen)

(* findDifferences(text1, text2) *)
Diff == Apply("diff", findDifferences(fn.input[1], fn.input[2]))

(* findDifferences(text, text) *)
DiffSelf == Apply("diffself", findDifferences(fn.input[1], fn.input[1]))

DiffNext == Diff \/ DiffSelf

DiffSpec == FnInit(DiffTexts \X DiffTexts) /\ [][DiffNext]_vars

MaxCsvLines == 3

(* a,b   1,2   3   the empty line   a blank   "a" , b (spaces, quotes)   1,2,3 *)
CsvLines ==
  {<<97, 44, 98>>, <<49, 44, 50>>, <<51>>, <<>>, <<32>>,
   <<32, 34, 97, 34, 32, 44, 98>>, <<49, 44, 50, 44, 51>>}

(* lines.join('\n') *)
RECURSIVE JoinLines(_)
JoinLines(lines) ==
  IF lines = <<>> THEN <<>>
  ELSE IF Len(lines) = 1 THEN lines[1]
  ELSE lines[1] \o <<10>> \o JoinLines(Tail(lines))

(* csvToJson(csvString) *)
Csv == Apply("csv", csvToJson(JoinLines(fn.input)))

(* csvToJson of the same text with a line feed at its end *)
CsvTrailing == Apply("csvnl", csvToJson(JoinLines(fn.input) \o <<10>>))

CsvNext == Csv \/ CsvTrailing

CsvSpec == FnInit(SeqsUpTo(CsvLines, MaxCsvLines)) /\ [][CsvNext]_vars

MaxCardLen == 3

(* 0 5 9 and the hyphen *)
CardChars == {48, 53, 57, 45}

Card_4539_67 == <<52, 53, 51, 57, 49, 52, 56, 56, 48, 51, 52, 51, 54, 52, 54, 55>>
Card_4539_68 == <<52, 53, 51, 57, 49, 52, 56, 56, 48, 51, 52, 51, 54, 52, 54, 56>>
Card_4111 == <<52, 49, 49, 49, 49, 49, 49, 49, 49, 49, 49, 49, 49, 49, 49, 49>>
Card_4539_67_spaced == <<52, 53, 51, 57, 32, 49, 52, 56, 56, 32, 48, 51, 52, 51, 32, 54, 52, 54, 55>>

CardInputs ==
  SeqsUpTo(CardChars, MaxCardLen)
    \cup {Card_4539_67, Card_4539_68, Card_4111, Card_4539_67_spaced}

(* creditCardValidator(number) *)
Card == Apply("card", creditCardValidator(fn.input))

(* creditCardValidator of the formatted number it returned *)
CardFormatted ==
  Apply("cardformatted",
        creditCardValidator(creditCardValidator(fn.input).out.formatted))

CardNext == Card \/ CardFormatted

CardSpec == FnInit(CardInputs) /\ [][CardNext]_vars

(* the event loop runs every pending 'end' callback *)
FairSpec == Spec /\ \A s \in Slots : WF_vars(\E b \in Bodies : End(s, b))

TypeOK ==
  /\ visitorsFile.kind \in {"absent", "garbage", "null", "object"}
  /\ disk \in Disks
  /\ hist.n \in 0..MaxReqs
  /\ \A s \in Slots : reqs[s].pc \in {"idle", "track", "api"}

(* ---- vocabulary of the properties ---- *)
AllIdle == \A s \in Slots : reqs[s].pc = "idle"

(* the instant the last step read the clock *)
Then == now - 1

(* the record the last step started from: the file's, or the default one *)
PreObj == IF pre.kind = "object" THEN pre.obj ELSE ZeroStats(Then)

Readable(f) == f.kind = "object" /\ disk # "noaccess"
Usable(f) == disk = "rw" /\ f.kind \in {"absent", "object"}

ArrivedAs(m, tp) == last.step = "arrive" /\ last.method = m /\ last.path = tp
TrackEnded == last.step = "end" /\ last.path = T_track
ObjectBody(b) == ~ParsePayload(b).throws /\ ~ParsePayload(b).isNull
TypeOfBody(b) == IF ParsePayload(b).type # "" THEN ParsePayload(b).type ELSE "web"

PlusOne(k) ==
  /\ visitorsFile.kind = "object"
  /\ k \in DOMAIN visitorsFile.obj
  /\ visitorsFile.obj[k] = IF k \in DOMAIN PreObj THEN Num(PreObj[k].n + 1) ELSE Num(1)

OthersKept(keys) ==
  /\ visitorsFile.kind = "object"
  /\ DOMAIN visitorsFile.obj \subseteq (DOMAIN PreObj) \cup keys
  /\ \A k \in (DOMAIN PreObj) \ keys :
       k \in DOMAIN visitorsFile.obj /\ visitorsFile.obj[k] = PreObj[k]

(* C1: from an absent file, with only POST api/visitors/track requests without a
   type (and read-only stats requests) handled one after the other on a writable
   store, GET api/visitors/stats answers total = N and web = N, N the number of
   tracking requests completed *)
C1_SequentialTracks ==
  (ArrivedAs("GET", T_stats) /\ hist.fromAbsent /\ hist.plain /\ ~hist.overlap
     /\ AllIdle /\ disk = "rw")
  => /\ resp.status = 200
     /\ "total" \in DOMAIN resp.stats /\ resp.stats["total"] = Num(hist.plainTracks)
     /\ "web" \in DOMAIN resp.stats /\ resp.stats["web"] = Num(hist.plainTracks)

C1_Witness ==
  /\ ArrivedAs("GET", T_stats) /\ hist.fromAbsent /\ hist.plain /\ ~hist.overlap
  /\ AllIdle /\ disk = "rw"
  /\ hist.plainTracks = 2
  /\ resp.stats["total"] = Num(2) /\ resp.stats["web"] = Num(2)

(* C2: once the file has been created from absent, its total equals the number
   of successful trackVisitor calls, whatever type each call was given *)
C2_TotalCountsCalls ==
  (hist.fromAbsent /\ visitorsFile.kind = "object")
  => visitorsFile.obj["total"] = Num(hist.calls)

(* C3 (as amended): requests waiting together cannot lose an update: the handler
   and the 'end' callbacks run one at a time, so the total of a file created from
   absent is never smaller than the number of successful tracking calls *)
C3_NoLostUpdate ==
  hist.fromAbsent
  => IF visitorsFile.kind = "object"
       THEN visitorsFile.obj["total"].t = "num"
            /\ visitorsFile.obj["total"].n >= hist.calls
       ELSE hist.calls = 0

C3_Witness ==
  /\ hist.fromAbsent /\ hist.overlap /\ AllIdle
  /\ hist.calls >= 2
  /\ visitorsFile.kind = "object"
  /\ visitorsFile.obj["total"] = Num(hist.calls)

LostUpdate ==
  /\ hist.fromAbsent /\ AllIdle /\ hist.calls >= 2
  /\ visitorsFile.kind = "object"
  /\ visitorsFile.obj["total"].n < hist.calls

TwoTracksWaiting ==
  \E s1, s2 \in Slots : s1 # s2 /\ reqs[s1].pc = "track" /\ reqs[s2].pc = "track"

(* C3 (as claimed): two tracking requests handled concurrently lead to a state
   where both tracking calls have completed and the total is smaller than the
   number of tracking calls made *)
C3_LostUpdateReached == (hist.fromAbsent /\ disk = "rw" /\ TwoTracksWaiting) ~> LostUpdate

ApiCounted == PlusOne("api") /\ PlusOne("total") /\ OthersKept({"api", "total", "lastUpdated"})

(* C4 (as claimed): every GET or POST under api/, the paths api/visitors/stats and
   api/visitors/track excepted, adds one to api and to total *)
C4_EveryApiRequestCounts ==
  (last.step = "arrive" /\ last.method \in {"GET", "POST"}
     /\ last.path \in {T_health, T_uuid, trimmedPath(P_nope)} /\ Usable(pre))
  => ApiCounted

(* C4 (as amended): on a usable store every POST under api/ other than POST
   api/visitors/track, and every request to api/health that is not OPTIONS, adds
   one to api and to total when its handler runs and nothing more when its body
   ends; a GET under api/ other than api/health changes no counter *)
C4_PostAndHealthCount ==
  /\ (last.step = "arrive" /\ Usable(pre)
        /\ \/ last.method = "POST" /\ last.path \in {T_stats, T_uuid, trimmedPath(P_nope)}
           \/ last.method # "OPTIONS" /\ last.path = T_health)
     => ApiCounted
  /\ (last.step = "end" /\ last.path # T_track) => visitorsFile = pre
  /\ (last.step = "arrive" /\ last.method = "GET"
        /\ last.path \in {T_stats, T_track, T_uuid, trimmedPath(P_nope)})
     => visitorsFile = pre

C4_Witness ==
  /\ ArrivedAs("POST", T_uuid) /\ Usable(pre) /\ pre.kind = "object"
  /\ visitorsFile.obj["api"] = Num(pre.obj["api"].n + 1)

(* C5: POST api/visitors/track with a JSON object body on a usable store answers
   200 {success: true, stats}, stats being the record now persisted, in which
   total is one more than before, the counter of the body's type (web when
   absent) is one more than before or 1 when new, and no other counter changed *)
C5_TrackAddsOne ==
  (TrackEnded /\ ObjectBody(last.body) /\ Usable(pre))
  => /\ resp.status = 200 /\ resp.kind = "track" /\ resp.tag = "success"
     /\ visitorsFile.kind = "object" /\ resp.stats = visitorsFile.obj
     /\ PlusOne("total")
     /\ PlusOne(TypeOfBody(last.body))
     /\ OthersKept({"total", TypeOfBody(last.body), "lastUpdated"})

(* C6: POST api/visitors/track with a body that is not JSON answers
   400 {error: "Invalid JSON"} and leaves the file as it was *)
C6_InvalidJsonRejected ==
  (TrackEnded /\ last.body # "" /\ JSONparse(last.body).throws)
  => /\ resp = JsonError(400, "Invalid JSON")
     /\ visitorsFile = pre

C6_Witness ==
  /\ TrackEnded /\ last.body = "{bad" /\ disk = "rw"
  /\ resp.status = 400 /\ resp.error = "Invalid JSON"
  /\ pre.kind = "object" /\ visitorsFile = pre

TrackFails == disk # "rw" \/ pre.kind = "garbage"
ReadFails == pre.kind # "absent" /\ (disk = "noaccess" \/ pre.kind = "garbage")

(* C7: when the store cannot be read, parsed or written, the failing store call
   raises nothing: api/visitors/track and api/visitors/stats answer 200 with the
   zeroed record, api/health answers 200 with the total of the zeroed record, and
   no request whose tracking failed gets an error response *)
C7_StoreFailureSwallowed ==
  /\ (TrackEnded /\ ObjectBody(last.body) /\ TrackFails)
     => /\ resp.status = 200 /\ resp.kind = "track"
        /\ resp.stats = ZeroStats(Then)
  /\ (ArrivedAs("GET", T_stats) /\ ReadFails)
     => /\ resp.status = 200 /\ resp.kind = "stats"
        /\ resp.stats = ZeroStats(Then)
  /\ (last.step = "arrive" /\ last.method # "OPTIONS" /\ last.path = T_health /\ ReadFails)
     => /\ resp.status = 200 /\ resp.kind = "health"
        /\ resp.visitors = Num(0)
  /\ (last.tv = "fail" \/ last.gs = "fail") => resp.kind # "error"

C7_Witness ==
  /\ TrackEnded /\ ObjectBody(last.body) /\ disk = "ro" /\ pre.kind = "object"
  /\ last.tv = "fail"
  /\ resp.status = 200 /\ resp.stats = ZeroStats(Then)

(* C8: a successful trackVisitor(type) writes back every key of the file other
   than total, type and lastUpdated with the value it had, and adds no other key *)
C8_OtherKeysKept ==
  (last.tv = "ok" /\ pre.kind = "object")
  => OthersKept({"total", last.tvType, "lastUpdated"})

C8_Witness ==
  /\ last.tv = "ok" /\ last.tvType = "web" /\ pre.kind = "object"
  /\ "note" \in DOMAIN pre.obj /\ "mobile" \in DOMAIN pre.obj
  /\ visitorsFile.obj["note"] = Str("keep")
  /\ visitorsFile.obj["mobile"] = pre.obj["mobile"]
  /\ visitorsFile.obj["web"] # pre.obj["web"]

(* C9: GET api/visitors/stats answers 200 with the persisted record, the zeroed
   record when the file is absent, and leaves the store as it was: the file keeps
   its content and an absent file stays absent *)
C9_StatsReadOnly ==
  ArrivedAs("GET", T_stats)
  => /\ resp.status = 200 /\ resp.kind = "stats"
     /\ visitorsFile = pre
     /\ Readable(pre) => resp.stats = pre.obj
     /\ pre.kind = "absent" => resp.stats = ZeroStats(Then)

C9_Witness ==
  /\ ArrivedAs("GET", T_stats) /\ disk = "rw"
  /\ visitorsFile.kind = "absent"
  /\ resp.status = 200 /\ resp.stats = ZeroStats(Then)

(* C10: while the file, if any, holds a record or text that is not JSON, GET
   api/health answers 200 with status "OK" and visitors equal to the total of the
   record persisted when it answers, which on a usable store is the total from
   before the request plus one *)
C10_HealthCountsItself ==
  (ArrivedAs("GET", T_health) /\ pre.kind # "null")
  => /\ resp.status = 200 /\ resp.kind = "health" /\ resp.tag = "OK"
     /\ Readable(visitorsFile) => resp.visitors = visitorsFile.obj["total"]
     /\ Usable(pre) => resp.visitors = Num(PreObj["total"].n + 1)

C10_Witness ==
  /\ ArrivedAs("GET", T_health) /\ disk = "rw" /\ pre.kind = "object"
  /\ resp.status = 200
  /\ resp.visitors = Num(pre.obj["total"].n + 1)
  /\ resp.visitors = visitorsFile.obj["total"]

(* C11: an OPTIONS request to any path is answered 200 with an empty body by the
   preflight branch alone: no store call is made, nothing is left waiting for a
   body and the file is as it was *)
C11_PreflightShortCircuits ==
  (last.step = "arrive" /\ last.method = "OPTIONS")
  => /\ resp.status = 200 /\ resp.kind = "empty" /\ resp.ctype = ""
     /\ last.tv = NoCall /\ last.gs = NoCall
     /\ reqs[last.slot].pc = "idle"
     /\ visitorsFile = pre
     /\ ~crashed

C11_Witness ==
  /\ ArrivedAs("OPTIONS", T_health) /\ disk = "rw" /\ pre.kind = "object"
  /\ resp.status = 200 /\ resp.kind = "empty"
  /\ visitorsFile = pre

(* C12: every response sent, whatever the method, path and status, carries the
   three Access-Control-Allow-* headers *)
C12_CorsOnEveryResponse ==
  resp.status # 0
  => /\ <<"Access-Control-Allow-Origin", "*">> \in resHeaders
     /\ <<"Access-Control-Allow-Methods", "GET, POST, OPTIONS">> \in resHeaders
     /\ <<"Access-Control-Allow-Headers", "Content-Type">> \in resHeaders

C12_Witness ==
  /\ last.step = "end" /\ resp.status = 400
  /\ <<"Access-Control-Allow-Origin", "*">> \in resHeaders
  /\ <<"Content-Type", "application/json">> \in resHeaders

(* C14: a POST with a well-formed JSON body to an api/ path that no case of the
   switch names is answered 400 {error: "Endpoint not found"}, not 404 *)
C14_UnknownToolIs400 ==
  (last.step = "end" /\ last.path = T_nope /\ ~ParsePayload(last.body).throws)
  => resp = JsonError(400, "Endpoint not found")

C14_Witness ==
  /\ last.step = "end" /\ last.path = T_nope /\ last.body = "{}"
  /\ resp.status = 400 /\ resp.error = "Endpoint not found"

(* C15: in the generic dispatch a non-empty body that is not JSON is answered
   400 {error: "Invalid JSON payload"} on every path, named by the switch or not,
   and no transform runs *)
C15_ParseBeforeLookup ==
  (last.step = "end" /\ last.path # T_track
     /\ last.body # "" /\ JSONparse(last.body).throws)
  => /\ resp = JsonError(400, "Invalid JSON payload")
     /\ last.ran = ""

C15_Witness ==
  /\ last.step = "end" /\ last.path = T_nope /\ last.body = "{bad"
  /\ resp.status = 400 /\ resp.error = "Invalid JSON payload"

(* C17: a GET whose trimmed path does not start with api/ is answered 200
   text/html with the page, and on a usable store adds one to web and to total
   and changes no other counter *)
C17_PageCountsWeb ==
  (last.step = "arrive" /\ last.method = "GET" /\ last.path \in {<<>>, <<"api">>})
  => /\ resp.status = 200 /\ resp.ctype = "text/html" /\ resp.kind = "html"
     /\ Usable(pre) => /\ PlusOne("web") /\ PlusOne("total")
                       /\ OthersKept({"web", "total", "lastUpdated"})

C17_Witness ==
  /\ ArrivedAs("GET", <<"api">>) /\ Usable(pre) /\ pre.kind = "object"
  /\ resp.status = 200 /\ resp.kind = "html"
  /\ visitorsFile.obj["web"] = Num(pre.obj["web"].n + 1)

(* C18: a request that is not OPTIONS, not a GET and not a POST under api/ is
   answered 404 {error: "Not found"} *)
C18_OtherRequestsAre404 ==
  (last.step = "arrive" /\ ~crashed
     /\ last.method \notin {"OPTIONS", "GET"}
     /\ ~(last.method = "POST" /\ StartsWithApi(last.path)))
  => resp = JsonError(404, "Not found")

(* C19: no request puts the server into a crashed state *)
C19_NeverCrashes == ~crashed

(* ---- vocabulary of the tool claims ---- *)
ApiEnded == last.step = "end" /\ StartsWithApi(last.path) /\ last.path # T_track

(* the fields each tool's case of the switch tests before it calls the transform *)
RequiredFields(tp) ==
  CASE tp = T_base64encode -> {"text"}
    [] tp = T_base64decode -> {"encoded"}
    [] tp = T_jsontoxml -> {"json"}
    [] tp = T_urldecode -> {"encoded"}
    [] tp = T_timestamp -> {"timestamp"}
    [] tp = T_hash -> {"text", "algorithm"}
    [] tp = T_jwt -> {"token"}
    [] OTHER -> {}

LacksField(tp, b) ==
  /\ ObjectBody(b)
  /\ \E k \in RequiredFields(tp) : k \notin DOMAIN ParsePayload(b).obj

FieldLabels == {"Text", "Encoded string", "JSON", "JWT token", "Algorithm", "Timestamp"}

IsFieldRequired(msg) == \E label \in FieldLabels : msg = label \o " is required"

ValidationMessage(tp) ==
  CASE tp = T_base64encode -> "Text is required"
    [] tp = T_base64decode -> "Encoded string is required"
    [] tp = T_jsontoxml -> "JSON is required"
    [] tp = T_urldecode -> "Encoded string is required"
    [] tp = T_timestamp -> "Timestamp is required"
    [] tp = T_hash -> "Text and algorithm are required"
    [] tp = T_jwt -> "JWT token is required"

(* C13 as stated: a POST to a known tool path whose JSON object body lacks a
   field the tool requires is answered 400 with an error of the form
   "<Field> is required", and the transform is not invoked *)
C13_FieldIsRequired ==
  (ApiEnded /\ LacksField(last.path, last.body))
    => /\ resp.status = 400 /\ resp.kind = "error"
       /\ IsFieldRequired(resp.error)
       /\ last.ran = ""

(* C13: a POST to a known tool path whose JSON object body lacks a field the
   tool requires is answered 400 with that tool's validation message, which is
   "<Field> is required" for a tool with one required field and
   "Text and algorithm are required" for api/generate/hash, and the transform
   is not invoked; api/base64/encode with body {} yields "Text is required" *)
C13_ValidationMessage ==
  /\ (ApiEnded /\ LacksField(last.path, last.body))
       => /\ resp.status = 400 /\ resp.kind = "error"
          /\ resp.error = ValidationMessage(last.path)
          /\ last.ran = ""
  /\ (ApiEnded /\ last.path = T_base64encode /\ last.body = "{}")
       => resp = JsonError(400, "Text is required")

C13_Witness ==
  /\ ApiEnded /\ last.path = T_hash /\ last.body = "{\"text\":\"A%\"}"
  /\ resp = JsonError(400, "Text and algorithm are required")
  /\ last.ran = ""

(* the malformed content of each tool *)
Malformed(tp, b) ==
  \/ tp = T_base64decode /\ b \in {"{\"encoded\":\"!!!\"}", "{\"encoded\":\"%\"}"}
  \/ tp = T_jsontoxml /\ b = "{\"json\":\"{bad\"}"
  \/ tp = T_jwt /\ b = "{\"token\":\"a.b\"}"
  \/ tp = T_hash /\ b = "{\"text\":\"A%\",\"algorithm\":\"nope\"}"
  \/ tp = T_urldecode /\ b = "{\"encoded\":\"%\"}"

(* C16: malformed content given to a transform (bad base64, invalid JSON for
   json-to-xml, a bad JWT structure, an unsupported hash algorithm, a malformed
   percent sequence) is answered 400 with an error message, never 200 *)
C16_MalformedIs400 ==
  (ApiEnded /\ Malformed(last.path, last.body))
    => resp.status = 400 /\ resp.kind = "error" /\ resp.error # ""

(* C20: for every text s, base64Decode(base64Encode(s)) = s and
   urlDecode(urlEncode(s)) = s *)
C20_RoundTrips ==
  fn.op \in {"base64", "url"} => ~fn.threw /\ fn.out = fn.input

C20_Witness ==
  /\ fn.op = "url" /\ fn.input = <<37, 8364, 128512>>
  /\ ~fn.threw /\ fn.out = fn.input

(* C30: once the visitors file exists and is not JSON, every step leaves it as it
   is: each trackVisitor call fails and returns the zeroed record, and
   getVisitorStats returns the zeroed record, whatever requests follow *)
C30_GarbageNeverRecovers ==
  pre.kind = "garbage"
  => /\ visitorsFile = pre
     /\ last.tv \in {NoCall, "fail"}
     /\ last.gs \in {NoCall, "fail"}
     /\ (TrackEnded /\ ObjectBody(last.body))
          => last.tv = "fail" /\ resp.stats = Stringify(ZeroStats(Then))
     /\ ArrivedAs("GET", T_stats)
          => last.gs = "fail" /\ resp.stats = Stringify(ZeroStats(Then))
     /\ ArrivedAs("GET", T_health)
          => last.tv = "fail" /\ last.gs = "fail" /\ resp.visitors = Num(0)

C30_Witness ==
  /\ pre.kind = "garbage" /\ disk = "rw" /\ hist.n >= 2
  /\ TrackEnded /\ last.body = "{}"
  /\ last.tv = "fail" /\ resp.status = 200
  /\ resp.stats = Stringify(ZeroStats(Then))
  /\ visitorsFile = Garbage

(* C28: every request is answered once: when its handler returns, either the
   response has been written or the request waits for its body, and when its
   'end' callback returns the response has been written *)
C28_ExactlyOneResponse ==
  /\ last.step = "arrive"
       => \/ reqs[last.slot].pc \in {"track", "api"} /\ resp = NoResp
          \/ reqs[last.slot].pc = "idle" /\ resp.status # 0
  /\ last.step = "end" => reqs[last.slot].pc = "idle" /\ resp.status # 0

(* C27: a POST to a tool path calls trackVisitor('api') once, when the request
   arrives and before its body is parsed; the 'end' callback makes no store call;
   on a writable store that starts empty the api counter equals the number of
   requests arrived, whatever they were answered; and the answer is the same
   whether or not the increment failed *)
C27_CountedOnceBeforeDispatch ==
  /\ (ArrivedAs("POST", last.path) /\ StartsWithApi(last.path))
       => /\ last.tv # NoCall /\ last.tvType = "api"
          /\ resp = NoResp
          /\ Usable(pre) => ApiCounted
          /\ ~Usable(pre) => visitorsFile = pre /\ last.tv = "fail"
  /\ ApiEnded
       => /\ last.tv = NoCall /\ visitorsFile = pre
          /\ ParsePayload(last.body).throws
               => resp = JsonError(400, "Invalid JSON payload")
          /\ (last.path = T_uuid /\ ~ParsePayload(last.body).throws)
               => resp.status = 200
          /\ (last.path = T_base64encode /\ last.body = "{}")
               => resp = JsonError(400, "Text is required")
          /\ (last.path = T_nope /\ ~ParsePayload(last.body).throws)
               => resp = JsonError(400, "Endpoint not found")
  /\ (disk = "rw" /\ hist.n > 0)
       => visitorsFile.kind = "object" /\ visitorsFile.obj["api"] = Num(hist.n)
  /\ disk = "ro" => visitorsFile = Absent

C27_Witness ==
  /\ disk = "rw" /\ hist.n = 2
  /\ ApiEnded /\ last.body = "{bad"
  /\ resp = JsonError(400, "Invalid JSON payload")
  /\ visitorsFile.obj["api"] = Num(2)

(* C23: jwtDecode fails with the format error for a token that has not exactly
   three segments, with the invalid-token error for three segments that are not
   base64 JSON, and succeeds otherwise *)
C23_FormatAndTokenErrors ==
  (ApiEnded /\ last.path = T_jwt)
    => /\ last.body = "{\"token\":\"a.b\"}" => resp = JsonError(400, "Invalid JWT format")
       /\ last.body = "{\"token\":\"a.b.c\"}" => resp = JsonError(400, "Invalid JWT token")
       /\ last.body = "{\"token\":\"e30.e30.x\"}" => resp.status = 200

(* the bodies whose timestamp is a number other than 0 *)
TimestampBodies ==
  {"{\"timestamp\":1641600000}", "{\"timestamp\":8640000000000}",
   "{\"timestamp\":8640000086400}"}

(* C26: POST api/convert/timestamp answers every numeric timestamp with the
   converter's result, never with an error *)
C26_TimestampNeverErrors ==
  (ApiEnded /\ last.path = T_timestamp /\ last.body \in TimestampBodies)
    => resp.status = 200 /\ last.ran = "unixTimestampConverter"

(* a required field that is there and is "", 0, false or null *)
FalsyField(tp, b) ==
  /\ ObjectBody(b)
  /\ \E k \in RequiredFields(tp) :
       /\ k \in DOMAIN ParsePayload(b).obj
       /\ ParsePayload(b).obj[k] \in {Str(""), Num(0), False, Null}

(* C29: a required field that is present but falsy is answered like an absent
   one, 400 with the tool's required-field message, and no transform runs *)
C29_FalsyIsRequired ==
  (ApiEnded /\ FalsyField(last.path, last.body))
    => resp = JsonError(400, ValidationMessage(last.path)) /\ last.ran = ""

C29_Witness ==
  /\ ApiEnded /\ last.path = T_timestamp /\ last.body = "{\"timestamp\":0}"
  /\ resp = JsonError(400, "Timestamp is required")
  /\ last.ran = ""

(* ---- vocabulary of the text-tool claims ---- *)
NewlinesOf(t) == {k \in 1..Len(t) : t[k] = 10}

LineCount(t) == Cardinality(NewlinesOf(t)) + 1

(* the position of the n-th line feed of t *)
NthNewline(t, n) ==
  CHOOSE k \in NewlinesOf(t) : Cardinality({j \in NewlinesOf(t) : j < k}) = n - 1

(* the i-th line of t, empty past its last line *)
LineOf(t, i) ==
  IF i > LineCount(t) THEN <<>>
  ELSE SubSeq(t,
              IF i = 1 THEN 1 ELSE NthNewline(t, i - 1) + 1,
              IF i = LineCount(t) THEN Len(t) ELSE NthNewline(t, i) - 1)

Larger(a, b) == IF a > b THEN a ELSE b

(* C21: findDifferences returns, in increasing line order, exactly one record
   {line, left, right, type} for each 1-based line index up to the larger line
   count at which the two texts differ, a missing line counting as empty; type is
   "modified" when both sides are non-empty, "removed" when only the left is,
   "added" when only the right is *)
C21_Differences ==
  fn.op = "diff"
  => LET t1 == fn.input[1]
         t2 == fn.input[2]
         differing == {i \in 1..Larger(LineCount(t1), LineCount(t2)) :
                         LineOf(t1, i) # LineOf(t2, i)}
     IN /\ ~fn.threw
        /\ Len(fn.out) = Cardinality(differing)
        /\ \A j \in 1..Len(fn.out) :
             /\ fn.out[j].line \in differing
             /\ fn.out[j].left = LineOf(t1, fn.out[j].line)
             /\ fn.out[j].right = LineOf(t2, fn.out[j].line)
             /\ fn.out[j].type =
                  IF fn.out[j].left # <<>> /\ fn.out[j].right # <<>> THEN "modified"
                  ELSE IF fn.out[j].left # <<>> THEN "removed" ELSE "added"
        /\ \A j, k \in 1..Len(fn.out) : j < k => fn.out[j].line < fn.out[k].line

C21_Witness ==
  /\ fn.op = "diff"
  /\ fn.input = <<<<97, 10, 98>>, <<97, 10, 99>>>>
  /\ fn.out = <<[line |-> 2, left |-> <<98>>, right |-> <<99>>, type |-> "modified"]>>

(* C22: htmlUnescape inverts htmlEscape: htmlUnescape(htmlEscape(s)) = s *)
C22_UnescapeInvertsEscape ==
  fn.op = "html" => fn.out = fn.input

(* the trimmed, quote-stripped cells of each line of the inputs *)
CellsTable(line) ==
  CASE line = <<97, 44, 98>> -> <<<<97>>, <<98>>>>
    [] line = <<49, 44, 50>> -> <<<<49>>, <<50>>>>
    [] line = <<51>> -> <<<<51>>>>
    [] line = <<32, 34, 97, 34, 32, 44, 98>> -> <<<<97>>, <<98>>>>
    [] line = <<49, 44, 50, 44, 51>> -> <<<<49>>, <<50>>, <<51>>>>

NotBlank(line) == line \notin {<<>>, <<32>>}

(* the object of a row: each header name with the cell below it, or the empty
   string where the row is short *)
ExpectedRow(names, cells) ==
  [name \in {names[k] : k \in 1..Len(names)} |->
     LET k == CHOOSE i \in 1..Len(names) : names[i] = name
     IN IF k <= Len(cells) THEN cells[k] ELSE <<>>]

(* C24: csvToJson returns one object per non-blank line after the header, in
   input order, keyed by the trimmed, quote-stripped header names, with the empty
   string for every field a short row lacks, and the empty sequence when no line
   is non-blank *)
C24_CsvRows ==
  fn.op \in {"csv", "csvnl"}
  => LET rows == SelectSeq(fn.input, NotBlank)
     IN /\ ~fn.threw
        /\ rows = <<>> => fn.out = <<>>
        /\ rows # <<>>
             => fn.out = [i \in 1..(Len(rows) - 1) |->
                            ExpectedRow(CellsTable(rows[1]), CellsTable(rows[i + 1]))]

C24_Witness ==
  /\ fn.op = "csv"
  /\ fn.input = <<<<97, 44, 98>>, <<49, 44, 50>>, <<51>>>>
  /\ fn.out = <<(<<97>> :> <<49>>) @@ (<<98>> :> <<50>>),
                (<<97>> :> <<51>>) @@ (<<98>> :> <<>>)>>

RECURSIVE SumOf(_, _)
SumOf(f, n) == IF n = 0 THEN 0 ELSE f[n] + SumOf(f, n - 1)

(* the Luhn test of a digit string: every second digit from the right doubled,
   9 taken off a doubled value above 9, the sum divisible by 10 *)
LuhnPasses(digits) ==
  LET n == Len(digits)
      term == [k \in 1..n |->
                 LET v == digits[k] - 48
                 IN IF (n - k + 1) % 2 = 1 THEN v
                    ELSE IF 2 * v > 9 THEN 2 * v - 9 ELSE 2 * v]
  IN SumOf(term, n) % 10 = 0

DigitsOf(text) == SelectSeq(text, LAMBDA c : c \in 48..57)

(* C25: creditCardValidator(number).valid is true exactly when the digits left
   after stripping every other character pass the Luhn test; 4539148803436467 is
   valid and 4539148803436468 is not *)
C25_LuhnValidity ==
  /\ fn.op \in {"card", "cardformatted"}
       => ~fn.threw /\ fn.out.valid = LuhnPasses(DigitsOf(fn.input))
  /\ (fn.op = "card" /\ fn.input = Card_4539_67) => fn.out.valid
  /\ (fn.op = "card" /\ fn.input = Card_4539_68) => ~fn.out.valid

C25_Witness ==
  /\ fn.op = "card" /\ fn.input = Card_4539_67_spaced
  /\ fn.out.valid /\ fn.out.type = "visa"
  /\ fn.out.formatted = Card_4539_67_spaced

====
